---- MODULE Spec2Model ----
(***************************************************************************)
(* Inventory lifecycle and reconciliation engine of src/app.py, as a state *)
(* machine over the record store (the 'database' worksheet).               *)
(*                                                                         *)
(* Encoding of cell values                                                 *)
(*   status   the six status strings, written here in ASCII:               *)
(*              InStock = zaiko, Deployed = shukko-chu, Returned =         *)
(*              hoju-zumi, Unknown = fumei, ReturnError = hoju-error,      *)
(*              ManuallyRemoved = a status containing 'sakujo'             *)
(*   date     a date OBJECT is a day number (day 0 is a Monday); a date    *)
(*            CELL is a string: <<>> is the empty string, <<d>> is the     *)
(*            'YYYY-MM-DD' text of day d, <<-1>> is a text that matches    *)
(*            the date pattern but is no calendar date (strptime fails)    *)
(*   amount   <<>> is the empty cell, <<n>> the number n                   *)
(*   memo     a sequence of words; the bonus marker is the word "bonus"    *)
(*   zone,job strings, "" when empty                                       *)
(***************************************************************************)
EXTENDS Integers, Sequences, FiniteSets, TLC

VARIABLES
    sheet,      \* the worksheet rows below the header, in row order
    ret,        \* the last operation and what it returned
    stock,      \* the stocktake tab: the pasted list and the findings shown
    pastCalls,  \* number of register_past_bulk calls made so far
    sessions    \* per browser session: the update_status_bulk call it is in

vars == <<sheet, ret, stock, pastCalls, sessions>>

----------------------------------------------------------------------------
(* Bounds of the model *)

MaxRows == 2          \* register_new_inventory is not called on a longer sheet
MaxList == 2          \* longest list given to register_new_inventory
MaxPastCalls == 1     \* calls of register_past_bulk
MaxCount == 160       \* largest weekly count a price is computed for
MaxLines == 5         \* lines of a pasted text
MaxChunks == 3        \* pieces a single pasted line is made of

----------------------------------------------------------------------------
(* Constants of the program *)

InStock == "InStock"
Deployed == "Deployed"
Returned == "Returned"
Unknown == "Unknown"
ReturnError == "ReturnError"
ManuallyRemoved == "ManuallyRemoved"

Statuses == {InStock, Deployed, Returned, Unknown, ReturnError, ManuallyRemoved}
TerminalStatuses == {Returned, Unknown, ReturnError, ManuallyRemoved}

ZONES == [z \in {"A", "B", "C", "D"} |->
            CASE z = "D" -> 70 [] z = "A" -> 55 [] z = "B" -> 65 [] z = "C" -> 60]

EmptyCell == <<>>
BadDateText == <<-1>>
None == -1

Row(sn, status, start, end, zone, amount, memo, job) ==
    [sn |-> sn, status |-> status, start |-> start, end |-> end,
     zone |-> zone, amount |-> amount, memo |-> memo, job |-> job]

(* sanitize_for_json on the values the engine passes: None gives "", a date
   object its '%Y-%m-%d' text. *)
sanitize_for_json(val) == IF val = None THEN EmptyCell ELSE <<val>>

(* datetime.strptime(text, '%Y-%m-%d') succeeds on the text of a calendar day
   only; strptime_day is the day it returns. *)
strptime_ok(text) == Len(text) = 1 /\ text[1] >= 0
strptime_day(text) == text[1]

(* 'bonus' in memo: the substring test of the bonus marker *)
HasBonusMarker(memo) == \E k \in DOMAIN memo : memo[k] = "bonus"

(* variant: tiers that would start one unit late *)
get_vol_bonus_strict(count) ==
    IF count > 150 THEN 20
    ELSE IF count > 100 THEN 15
    ELSE IF count > 50 THEN 10
    ELSE IF count > 20 THEN 5
    ELSE 0

get_vol_bonus(count) ==
    IF count >= 150 THEN 20
    ELSE IF count >= 100 THEN 15
    ELSE IF count >= 50 THEN 10
    ELSE IF count >= 20 THEN 5
    ELSE 0

----------------------------------------------------------------------------
(* register_new_inventory *)

(* variant: a check that would also let a Returned unit through *)
permitted_statuses_with_returned == {InStock, Deployed, Returned}

permitted_statuses == {InStock, Deployed}

(* variants of the duplicate guard: one that looks at InStock rows only, one
   that looks at every row whatever its status *)
current_active_serials_in_stock(recs) ==
    {recs[i].sn : i \in {j \in DOMAIN recs : recs[j].status = InStock}}

current_active_serials_any(recs) == {recs[i].sn : i \in DOMAIN recs}

current_active_serials(recs) ==
    {recs[i].sn : i \in {j \in DOMAIN recs : recs[j].status \in {InStock, Deployed}}}

RECURSIVE new_rows(_, _)
new_rows(data_list, active) ==
    IF data_list = <<>> THEN <<>>
    ELSE LET s == Head(data_list)[1]
             d == Head(data_list)[2]
             rest == new_rows(Tail(data_list), active)
         IN  IF s \in active THEN rest
             ELSE <<Row(s, InStock, d, EmptyCell, "", EmptyCell, <<>>, "")>> \o rest

(* ret.op names the operation; error/why/count/skipped/named/statuses are
   its return value; recalc (recalc_weekly_revenue was run), cells (the number
   of cells it computed) and failed (a store write raised) observe the run. *)
NoRet == [op |-> "none", error |-> FALSE, why |-> "", count |-> 0, skipped |-> 0,
          named |-> {}, statuses |-> {}, recalc |-> FALSE, cells |-> 0,
          failed |-> FALSE]

(* Every operation is given as the rows it leaves and what it returns, from
   the rows it reads (recs), its arguments, and whether the store raises on
   its write. *)
register_new_inventory(recs, data_list, appendFails) ==
    LET active == current_active_serials(recs)
        rows == new_rows(data_list, active)
        skipped == Len(data_list) - Len(rows)
    IN  IF rows # <<>> /\ appendFails
        THEN [sheet |-> recs,
              ret |-> [NoRet EXCEPT !.op = "register_new", !.failed = TRUE]]
        ELSE [sheet |-> recs \o rows,
              ret |-> [NoRet EXCEPT !.op = "register_new", !.count = Len(rows),
                                    !.skipped = skipped]]

----------------------------------------------------------------------------
(* recalc_weekly_revenue *)

weekday(d) == d % 7
start_of_week(today_date) == today_date - weekday(today_date)
end_of_week(today_date) == start_of_week(today_date) + 6

(* variant: a week filter that would keep the rows tagged as a bonus *)
weekly_indices_with_bonus_rows(recs, today_date) ==
    {i \in DOMAIN recs :
        /\ recs[i].status = Returned
        /\ recs[i].end # EmptyCell
        /\ strptime_ok(recs[i].end)
        /\ start_of_week(today_date) <= strptime_day(recs[i].end)
        /\ strptime_day(recs[i].end) <= end_of_week(today_date)}

weekly_indices(recs, today_date) ==
    {i \in DOMAIN recs :
        /\ recs[i].status = Returned
        /\ recs[i].end # EmptyCell
        /\ ~HasBonusMarker(recs[i].memo)
        /\ strptime_ok(recs[i].end)
        /\ start_of_week(today_date) <= strptime_day(recs[i].end)
        /\ strptime_day(recs[i].end) <= end_of_week(today_date)}

base_price(zone_name) == IF zone_name \in DOMAIN ZONES THEN ZONES[zone_name] ELSE 70

(* variant: an early bonus that would need fewer than three days *)
early_bonus_under_three(row) ==
    IF /\ strptime_ok(row.start)
       /\ strptime_ok(row.end)
       /\ strptime_day(row.end) - strptime_day(row.start) < 3
    THEN 10 ELSE 0

early_bonus(row) ==
    IF /\ strptime_ok(row.start)
       /\ strptime_ok(row.end)
       /\ strptime_day(row.end) - strptime_day(row.start) <= 3
    THEN 10 ELSE 0

new_total_price(row, current_bonus) ==
    base_price(row.zone) + current_bonus + early_bonus(row)

(* variant: a recompute that rewrites every cell of the week without
   comparing it with the stored amount *)
cells_to_update_all(recs, today_date) == weekly_indices(recs, today_date)

cells_to_update(recs, today_date) ==
    LET week == weekly_indices(recs, today_date)
        current_bonus == get_vol_bonus(Cardinality(week))
    IN  {i \in week : recs[i].amount # <<new_total_price(recs[i], current_bonus)>>}

(* the rows after sheet.update_cells(cells_to_update) *)
recalc_rows(recs, today_date) ==
    LET week == weekly_indices(recs, today_date)
        current_bonus == get_vol_bonus(Cardinality(week))
        cells == cells_to_update(recs, today_date)
    IN  [i \in DOMAIN recs |->
            IF i \in cells
            THEN [recs[i] EXCEPT !.amount = <<new_total_price(recs[i], current_bonus)>>]
            ELSE recs[i]]

recalc_weekly_revenue(recs, today_date, updateFails) ==
    LET cells == cells_to_update(recs, today_date)
        raised == cells # {} /\ updateFails
    IN  [sheet |-> IF raised THEN recs ELSE recalc_rows(recs, today_date),
         ret |-> [NoRet EXCEPT !.op = "recalc", !.recalc = TRUE,
                               !.cells = Cardinality(cells), !.failed = raised]]

----------------------------------------------------------------------------
(* update_status_bulk *)

last_row_of(recs, sn) ==
    CHOOSE i \in DOMAIN recs :
        /\ recs[i].sn = sn
        /\ \A j \in DOMAIN recs : recs[j].sn = sn => j <= i

sn_status_map(recs, target_set) ==
    [sn \in {s \in target_set : \E i \in DOMAIN recs : recs[i].sn = s} |->
        recs[last_row_of(recs, sn)].status]

missing_sns(recs, target_set) == target_set \ DOMAIN sn_status_map(recs, target_set)

invalid_sns(recs, target_set) ==
    LET m == sn_status_map(recs, target_set)
    IN  {sn \in DOMAIN m : m[sn] \notin permitted_statuses}

(* variant: an update that would write the memo and the job id also when
   they are empty *)
updated_rows_always_memo(recs, target_set, new_status, comp_str, zone, safe_price, memo, job_id) ==
    [i \in DOMAIN recs |->
        IF recs[i].sn \in target_set
        THEN [recs[i] EXCEPT !.status = new_status, !.end = comp_str, !.zone = zone,
                             !.amount = <<safe_price>>, !.memo = memo, !.job = job_id]
        ELSE recs[i]]

(* variant: a write that would reach only the first of the matched rows *)
updated_rows_first_only(recs, target_set, new_status, comp_str, zone, safe_price, memo, job_id) ==
    [i \in DOMAIN recs |->
        IF recs[i].sn \in target_set /\ \A j \in 1..(i - 1) : recs[j].sn \notin target_set
        THEN [recs[i] EXCEPT !.status = new_status,
                             !.end = comp_str,
                             !.zone = zone,
                             !.amount = <<safe_price>>,
                             !.memo = IF memo # <<>> THEN memo ELSE @,
                             !.job = IF job_id # "" THEN job_id ELSE @]
        ELSE recs[i]]

(* variant: an update that would also blank the start date of the rows it
   writes *)
updated_rows_blanking_start(recs, target_set, new_status, comp_str, zone, safe_price, memo, job_id) ==
    [i \in DOMAIN recs |->
        IF recs[i].sn \in target_set
        THEN [recs[i] EXCEPT !.status = new_status, !.start = EmptyCell,
                             !.end = comp_str, !.zone = zone,
                             !.amount = <<safe_price>>]
        ELSE recs[i]]

updated_rows(recs, target_set, new_status, comp_str, zone, safe_price, memo, job_id) ==
    [i \in DOMAIN recs |->
        IF recs[i].sn \in target_set
        THEN [recs[i] EXCEPT !.status = new_status,
                             !.end = comp_str,
                             !.zone = zone,
                             !.amount = <<safe_price>>,
                             !.memo = IF memo # <<>> THEN memo ELSE @,
                             !.job = IF job_id # "" THEN job_id ELSE @]
        ELSE recs[i]]

updated_count(recs, target_set) ==
    Cardinality({i \in DOMAIN recs : recs[i].sn \in target_set})

update_status_bulk(recs, target_serials, new_status, complete_date, zone, price, memo, job_id, updateFails, recalcFails) ==
    LET target_set == target_serials
        m == sn_status_map(recs, target_set)
        missing == missing_sns(recs, target_set)
        invalid == invalid_sns(recs, target_set)
        comp_str == sanitize_for_json(complete_date)
        rows == updated_rows(recs, target_set, new_status, comp_str, zone, price,
                             memo, job_id)
        updated == updated_count(recs, target_set)
        runs == updated > 0 /\ new_status = Returned /\ complete_date # None
        recalc == recalc_weekly_revenue(rows, complete_date, recalcFails)
        R == [NoRet EXCEPT !.op = "update_status"]
    IN  IF missing # {}
        THEN [sheet |-> recs,
              ret |-> [R EXCEPT !.error = TRUE, !.why = "missing", !.named = missing]]
        ELSE IF invalid # {}
        THEN [sheet |-> recs,
              ret |-> [R EXCEPT !.error = TRUE, !.why = "invalid", !.named = invalid,
                                !.statuses = {<<sn, m[sn]>> : sn \in invalid}]]
        ELSE IF updated > 0 /\ updateFails
        THEN [sheet |-> recs,
              ret |-> [R EXCEPT !.error = TRUE, !.why = "db", !.failed = TRUE]]
        ELSE IF runs
        THEN [sheet |-> recalc.sheet,
              ret |-> [R EXCEPT !.count = updated, !.recalc = TRUE,
                                !.cells = recalc.ret.cells,
                                !.failed = recalc.ret.failed]]
        ELSE [sheet |-> rows, ret |-> [R EXCEPT !.count = updated]]

----------------------------------------------------------------------------
(* register_past_bulk *)

(* variant: rows that would all carry the base amount, the remainder lost *)
past_rows_without_remainder(date_str, count, total_amount, zone, memo, job_id) ==
    [k \in 1..count |->
        Row("OLD", Returned, EmptyCell, date_str, zone, <<total_amount \div count>>,
            memo, job_id)]

past_rows(date_str, count, total_amount, zone, memo, job_id) ==
    LET base_amount == total_amount \div count
        remainder == total_amount % count
    IN  [k \in 1..count |->
            Row("OLD", Returned, EmptyCell, date_str, zone,
                <<base_amount + (IF k - 1 < remainder THEN 1 ELSE 0)>>, memo, job_id)]

register_past_bulk(recs, date_obj, count, total_amount, zone, memo, job_id, appendFails) ==
    LET rows == IF count <= 0 THEN <<>>
                ELSE past_rows(sanitize_for_json(date_obj), count, total_amount,
                               zone, memo, job_id)
    IN  IF rows # <<>> /\ appendFails
        THEN [sheet |-> recs,
              ret |-> [NoRet EXCEPT !.op = "register_past", !.error = TRUE,
                                    !.why = "raised", !.failed = TRUE]]
        ELSE [sheet |-> recs \o rows,
              ret |-> [NoRet EXCEPT !.op = "register_past", !.count = Len(rows)]]

----------------------------------------------------------------------------
(* The stocktake tab of main, and the view of the sheet it works on *)

NaT == -2

(* get_database: pd.to_datetime(..., errors='coerce').dt.date of a date cell *)
to_datetime(text) == IF strptime_ok(text) THEN strptime_day(text) ELSE NaT

(* get_database: pd.to_numeric(..., errors='coerce').fillna(0).astype(int) of an
   amount cell *)
to_numeric(cell) == IF cell = EmptyCell THEN 0 ELSE cell[1]

(* df_valid of main: the rows whose status does not contain 'sakujo' *)
df_valid(recs) == SelectSeq(recs, LAMBDA r : r.status # ManuallyRemoved)

(* get_active_inventory: the rows whose status is InStock. Its sort by start
   date decides only which row of a repeated serial db_map keeps. *)
get_active_inventory(df_all) == SelectSeq(df_all, LAMBDA r : r.status = InStock)

db_set(recs) ==
    LET df_inv == get_active_inventory(df_valid(recs))
    IN  {df_inv[i].sn : i \in DOMAIN df_inv}

(* db_map: serial -> start date of its row that sorts last (NaT sorts last) *)
db_map(recs) ==
    LET df_inv == get_active_inventory(df_valid(recs))
        dates(sn) == {to_datetime(df_inv[i].start) : i \in {j \in DOMAIN df_inv : df_inv[j].sn = sn}}
    IN  [sn \in db_set(recs) |->
            IF NaT \in dates(sn) THEN NaT
            ELSE CHOOSE d \in dates(sn) : \A e \in dates(sn) : e <= d]

input_set(cur) == {cur[i][1] : i \in DOMAIN cur}

missing_db(cur, recs) == SelectSeq(cur, LAMBDA p : p[1] \notin DOMAIN db_map(recs))

ghosts(cur, recs) == db_set(recs) \ input_set(cur)

(* what the tab shows for the list cur on the rows recs ("if cur:") *)
stocktake_view(cur, recs) ==
    IF cur = <<>> THEN [cur |-> <<>>, missing_db |-> <<>>, ghosts |-> {}]
    ELSE [cur |-> cur, missing_db |-> missing_db(cur, recs), ghosts |-> ghosts(cur, recs)]

----------------------------------------------------------------------------
(* Steps: one per operation or handler *)

Does(r) == sheet' = r.sheet /\ ret' = r.ret

(* a step in which the store raises is taken only where a write is made *)
DoesWith(r, raises) == (raises => r.ret.failed) /\ Does(r)

(* "read the list": the buffer is replaced and the script reruns *)
stocktake_load(parsed) ==
    /\ stock' = stocktake_view(parsed, sheet)
    /\ UNCHANGED <<sheet, ret, pastCalls, sessions>>

(* any rerun of the script with the list kept in the session *)
stocktake_rerun ==
    /\ stock.cur # <<>>
    /\ stock' = stocktake_view(stock.cur, sheet)
    /\ stock' # stock
    /\ UNCHANGED <<sheet, ret, pastCalls, sessions>>

(* button "register the new ones": register_new_inventory(missing_db), rerun *)
stocktake_register(appendFails) ==
    /\ stock.missing_db # <<>>
    /\ DoesWith(register_new_inventory(sheet, stock.missing_db, appendFails), appendFails)
    /\ stock' = stocktake_view(stock.cur, sheet')
    /\ UNCHANGED <<pastCalls, sessions>>

(* button "make them all ReturnError": update_status_bulk(ghosts, ...) with
   today, no zone, price 0 and the stocktake memo; rerun unless it failed *)
stocktake_ghosts(today, updateFails) ==
    /\ stock.ghosts # {}
    /\ DoesWith(update_status_bulk(sheet, stock.ghosts, ReturnError, today, "", 0,
                                   <<"stocktake">>, "", updateFails, FALSE), updateFails)
    /\ stock' = IF ret'.error THEN stock ELSE stocktake_view(stock.cur, sheet')
    /\ UNCHANGED <<pastCalls, sessions>>

----------------------------------------------------------------------------
(* Inputs *)

Serials == {"A", "B"}
RegDates == {<<1>>, <<2>>}
CompDates == {5, 9}
RegPairs == Serials \X RegDates
RegLists == UNION {[1..n -> Serials \X {<<2>>}] : n \in 1..MaxList}

(* The argument tuples update_status_bulk is called with, after the target
   serials: new_status, complete_date, zone, price, memo, job_id.  The first
   two sets are the two call sites of main; the third holds other statuses
   the function accepts and its default complete_date=None. *)
ReturnedCalls ==
    {<<Returned, 5, "A", ZONES["A"], <<>>, "J1">>,
     <<Returned, 9, "A", ZONES["A"], <<>>, "J1">>,
     <<Returned, 9, "D", ZONES["D"], <<>>, "J2">>}
StocktakeCalls ==
    {<<ReturnError, 5, "", 0, <<"stocktake">>, "">>}
OtherCalls ==
    {<<Deployed, None, "", 0, <<>>, "">>,
     <<Unknown, 9, "", 0, <<>>, "">>,
     <<Returned, None, "A", ZONES["A"], <<>>, "J1">>,
     <<Returned, 9, "Z", 70, <<>>, "J1">>}
TransitionCalls ==
    {c \in ReturnedCalls : c[6] = "J1"} \cup StocktakeCalls \cup OtherCalls

PastDates == {5}
PastCounts == {2}
PastTotals == {150}
PastMemos == {<<>>, <<"spring", "bonus">>}
(* the total-amount field takes any number, also one below zero *)
RefundTotals == {-10}
(* a total that does not divide by the count *)
OddTotals == {151}

(* rows of real units, i.e. not the OLD-... rows of register_past_bulk *)
unit_rows(recs) == Len(SelectSeq(recs, LAMBDA r : r.sn # "OLD"))

NoStock == [cur |-> <<>>, missing_db |-> <<>>, ghosts |-> {}]

(* the browser sessions served side by side, and a session outside a call *)
Sessions == {1, 2}
Idle == [pc |-> "idle"]

Init ==
    /\ sheet = <<>>
    /\ ret = NoRet
    /\ stock = NoStock
    /\ pastCalls = 0
    /\ sessions = [s \in Sessions |-> Idle]

RegisterNew ==
    \E data_list \in RegLists, f \in BOOLEAN :
        /\ DoesWith(register_new_inventory(sheet, data_list, f), f)
        /\ unit_rows(sheet') <= MaxRows
        /\ UNCHANGED <<stock, pastCalls, sessions>>

TransitionBulk ==
    \E targets \in SUBSET Serials, c \in TransitionCalls,
       f1 \in BOOLEAN, f2 \in BOOLEAN :
        /\ ~(f1 /\ f2)
        /\ DoesWith(update_status_bulk(sheet, targets, c[1], c[2], c[3], c[4], c[5], c[6],
                                       f1, f2), f1 \/ f2)
        /\ UNCHANGED <<stock, pastCalls, sessions>>

RegisterPastBulk ==
    \E d \in PastDates, n \in PastCounts, t \in PastTotals \cup RefundTotals \cup OddTotals,
       memo \in PastMemos,
       f \in BOOLEAN :
        /\ pastCalls < MaxPastCalls
        /\ pastCalls' = pastCalls + 1
        /\ DoesWith(register_past_bulk(sheet, d, n, t, "A", memo, "J1", f), f)
        /\ UNCHANGED <<stock, sessions>>

RecalcWeekly ==
    \E d \in CompDates, f \in BOOLEAN :
        /\ DoesWith(recalc_weekly_revenue(sheet, d, f), f)
        /\ UNCHANGED <<stock, pastCalls, sessions>>

Next == RegisterNew \/ TransitionBulk \/ RegisterPastBulk \/ RecalcWeekly

Spec == Init /\ [][Next]_vars

(* The pricing runs: a week that crosses the first volume tier. *)
WeekLists == {<<p>> : p \in RegPairs}
WeekCalls == ReturnedCalls \cup StocktakeCalls
WeekPastCounts == {19}

RegisterNewW ==
    \E data_list \in WeekLists, f \in BOOLEAN :
        /\ DoesWith(register_new_inventory(sheet, data_list, f), f)
        /\ unit_rows(sheet') <= MaxRows
        /\ UNCHANGED <<stock, pastCalls, sessions>>

TransitionBulkW ==
    \E targets \in SUBSET Serials \ {{}}, c \in WeekCalls,
       f1 \in BOOLEAN, f2 \in BOOLEAN :
        /\ ~(f1 /\ f2)
        /\ DoesWith(update_status_bulk(sheet, targets, c[1], c[2], c[3], c[4], c[5], c[6],
                                       f1, f2), f1 \/ f2)
        /\ UNCHANGED <<stock, pastCalls, sessions>>

RegisterPastBulkW ==
    \E d \in PastDates, n \in WeekPastCounts, t \in PastTotals, memo \in PastMemos,
       f \in BOOLEAN :
        /\ pastCalls < MaxPastCalls
        /\ pastCalls' = pastCalls + 1
        /\ DoesWith(register_past_bulk(sheet, d, n, t, "A", memo, "J1", f), f)
        /\ UNCHANGED <<stock, sessions>>

NextWeek == RegisterNewW \/ TransitionBulkW \/ RegisterPastBulkW \/ RecalcWeekly

SpecWeek == Init /\ [][NextWeek]_vars

(* The stocktake runs: three units, the list pasted into the tab, and the
   lifecycle calls that make the store the tab is compared with. *)
StockSerials == {"A", "B", "C"}
StockRegLists == {<<p>> : p \in {"A", "B"} \X RegDates}
StockCalls ==
    {<<Deployed, None, "", 0, <<>>, "">>,
     <<Returned, 5, "A", ZONES["A"], <<>>, "J1">>}
StockLists ==
    {<< <<"A", <<1>> >> >>,
     << <<"A", <<2>> >> >>,
     << <<"A", <<1>> >>, <<"C", <<2>> >> >>,
     << <<"C", <<1>> >>, <<"B", <<2>> >> >>}

RegisterNewS ==
    \E data_list \in StockRegLists :
        /\ Does(register_new_inventory(sheet, data_list, FALSE))
        /\ unit_rows(sheet') <= MaxRows
        /\ UNCHANGED <<stock, pastCalls, sessions>>

TransitionBulkS ==
    \E targets \in {{"A"}, {"B"}}, c \in StockCalls :
        /\ Does(update_status_bulk(sheet, targets, c[1], c[2], c[3], c[4], c[5], c[6],
                                   FALSE, FALSE))
        /\ UNCHANGED <<stock, pastCalls, sessions>>

StocktakeLoad == \E parsed \in StockLists : stocktake_load(parsed)

StocktakeRerun == stocktake_rerun

StocktakeRegister ==
    \E f \in BOOLEAN :
        /\ stocktake_register(f)
        /\ unit_rows(sheet') <= MaxRows

StocktakeGhosts == \E today \in {5}, f \in BOOLEAN : stocktake_ghosts(today, f)

NextStock ==
    \/ RegisterNewS \/ TransitionBulkS
    \/ StocktakeLoad \/ StocktakeRerun \/ StocktakeRegister \/ StocktakeGhosts

SpecStock == Init /\ [][NextStock]_vars

(* Two sessions in update_status_bulk side by side.  A call reads the
   worksheet, validates and builds its cells from the rows it read, and
   writes the cells by row number to the worksheet as it is by then. *)
RaceLists == {<< <<sn, <<2>> >> >> : sn \in Serials}
RaceTargets == {{"A"}, {"A", "B"}}
RaceCalls == {c \in ReturnedCalls : c[2] = 5} \cup StocktakeCalls

(* sheet.update_cells(cells) for cells built from all_records: rows are never
   removed and a serial is never rewritten, so a row number still names the
   row that was read *)
cells_written(cur, all_records, target_set, new_status, comp_str, zone, safe_price, memo, job_id) ==
    [i \in DOMAIN cur |->
        IF i \in DOMAIN all_records /\ all_records[i].sn \in target_set
        THEN updated_rows(cur, target_set, new_status, comp_str, zone, safe_price,
                          memo, job_id)[i]
        ELSE cur[i]]

(* update_status_bulk from its validation on, for a call that has read
   all_records while the worksheet has become cur *)
update_status_bulk_write(cur, all_records, target_serials, c) ==
    LET v == update_status_bulk(all_records, target_serials, c[1], c[2], c[3], c[4], c[5],
                                c[6], FALSE, FALSE)
        rows == cells_written(cur, all_records, target_serials, c[1],
                              sanitize_for_json(c[2]), c[3], c[4], c[5], c[6])
        runs == v.ret.count > 0 /\ c[1] = Returned /\ c[2] # None
        recalc == recalc_weekly_revenue(rows, c[2], FALSE)
    IN  IF v.ret.error THEN [sheet |-> cur, ret |-> v.ret]
        ELSE IF runs
        THEN [sheet |-> recalc.sheet, ret |-> [v.ret EXCEPT !.cells = recalc.ret.cells]]
        ELSE [sheet |-> rows, ret |-> v.ret]

RegisterNewRace ==
    \E data_list \in RaceLists :
        /\ Does(register_new_inventory(sheet, data_list, FALSE))
        /\ unit_rows(sheet') <= MaxRows
        /\ UNCHANGED <<stock, pastCalls, sessions>>

(* all_records = sheet.get_all_records() *)
ReadStore(s) ==
    \E targets \in RaceTargets, c \in RaceCalls :
        /\ sessions[s].pc = "idle"
        /\ sessions' = [sessions EXCEPT ![s] =
                [pc |-> "read", all_records |-> sheet, targets |-> targets, call |-> c]]
        /\ UNCHANGED <<sheet, ret, stock, pastCalls>>

(* the validation, sheet.update_cells(cells), the recompute and the return *)
WriteStore(s) ==
    LET me == sessions[s]
        r == update_status_bulk_write(sheet, me.all_records, me.targets, me.call)
    IN  /\ me.pc = "read"
        /\ Does(r)
        /\ sessions' = [sessions EXCEPT ![s] =
                [pc |-> "done", all_records |-> me.all_records, targets |-> me.targets,
                 call |-> me.call, error |-> r.ret.error, count |-> r.ret.count]]
        /\ UNCHANGED <<stock, pastCalls>>

(* the session shows the result and waits for the next form *)
ShowResult(s) ==
    /\ sessions[s].pc = "done"
    /\ sessions' = [sessions EXCEPT ![s] = Idle]
    /\ UNCHANGED <<sheet, ret, stock, pastCalls>>

NextRace ==
    \/ RegisterNewRace
    \/ \E s \in Sessions : ReadStore(s)
    \/ \E s \in Sessions : WriteStore(s)
    \/ \E s \in Sessions : ShowResult(s)

SpecRace == Init /\ [][NextRace]_vars

(* The pricing function alone: the price recalc_weekly_revenue computes for
   one Returned record of a week of week_count records. *)
PriceZones == DOMAIN ZONES
PriceStarts == {<<>>, BadDateText, <<1>>, <<2>>, <<9>>}

PriceRecord ==
    \E zone_name \in PriceZones, start \in PriceStarts, week_count \in 1..MaxCount :
        LET row == Row("A", Returned, start, <<5>>, zone_name, <<ZONES[zone_name]>>,
                       <<>>, "J1")
            current_bonus == get_vol_bonus(week_count)
        IN  /\ sheet' = <<[row EXCEPT !.amount = <<new_total_price(row, current_bonus)>>]>>
            /\ ret' = [NoRet EXCEPT !.op = "price", !.count = week_count]
            /\ UNCHANGED <<stock, pastCalls, sessions>>

SpecPrice == Init /\ [][PriceRecord]_vars

----------------------------------------------------------------------------
(* Text analysis: extract_serials_with_date and extract_serials_only.

   A character is a number: 0..9 the ASCII digits, 10..19 the full-width
   digits, then the three date separators, the blank, a letter, the
   underscore and a comma.  A text is the sequence of its lines, i.e. the
   text split at the line breaks; the empty text is one empty line. *)

Hyphen == 20
Slash == 21
Dot == 22
Blank == 30
Letter == 31
Underscore == 32
Comma == 33
Newline == 34

IsDigit(c) == c \in 0..9                                   \* \d
IsWordChar(c) == IsDigit(c) \/ c \in 10..19 \/ c \in {Letter, Underscore}   \* \w
IsSpace(c) == c \in {Blank, Newline}
IsDateSep(c) == c \in {Hyphen, Slash, Dot}                 \* [-/.]

(* text.translate(str.maketrans(full-width digits, ASCII digits)) *)
translate_line(line) ==
    [k \in DOMAIN line |-> IF line[k] \in 10..19 THEN line[k] - 10 ELSE line[k]]

translate(text) == [i \in DOMAIN text |-> translate_line(text[i])]

RECURSIVE lstrip(_)
lstrip(line) ==
    IF line # <<>> /\ IsSpace(Head(line)) THEN lstrip(Tail(line)) ELSE line

RECURSIVE rstrip(_)
rstrip(line) ==
    IF line # <<>> /\ IsSpace(line[Len(line)])
    THEN rstrip(SubSeq(line, 1, Len(line) - 1)) ELSE line

strip(line) == rstrip(lstrip(line))

(* \b at the gap before position p of line: exactly one side is a word
   character *)
word_boundary(line, p) ==
    LET before == p > 1 /\ IsWordChar(line[p - 1])
        after == p <= Len(line) /\ IsWordChar(line[p])
    IN  before # after

(* variant: a pattern without the two \b *)
serial_pattern_unbounded(line, p) ==
    /\ p + 7 <= Len(line)
    /\ \A k \in p..(p + 7) : IsDigit(line[k])

(* serial_pattern \b(\d{8})\b matches at position p *)
serial_pattern(line, p) ==
    /\ p + 7 <= Len(line)
    /\ \A k \in p..(p + 7) : IsDigit(line[k])
    /\ word_boundary(line, p)
    /\ word_boundary(line, p + 8)

(* serial_pattern.findall(line): the matches from left to right *)
RECURSIVE findall_from(_, _)
findall_from(line, p) ==
    IF p > Len(line) THEN <<>>
    ELSE IF serial_pattern(line, p)
         THEN <<SubSeq(line, p, p + 7)>> \o findall_from(line, p + 8)
         ELSE findall_from(line, p + 1)

serial_findall(line) == findall_from(line, 1)

(* date_pattern (\d{4})[-/.](\d{2})[-/.](\d{2}) matches at position p *)
date_pattern(line, p) ==
    /\ p + 9 <= Len(line)
    /\ \A k \in {p, p + 1, p + 2, p + 3, p + 5, p + 6, p + 8, p + 9} : IsDigit(line[k])
    /\ IsDateSep(line[p + 4])
    /\ IsDateSep(line[p + 7])

date_positions(line) == {p \in DOMAIN line : date_pattern(line, p)}

(* d_match = date_pattern.search(line); group(1)-group(2)-group(3) *)
date_of_match(line, p) ==
    SubSeq(line, p, p + 3) \o <<Hyphen>> \o SubSeq(line, p + 5, p + 6)
        \o <<Hyphen>> \o SubSeq(line, p + 8, p + 9)

first_date(line) ==
    date_of_match(line, CHOOSE p \in date_positions(line) :
                            \A q \in date_positions(line) : p <= q)

(* default_date.strftime('%Y-%m-%d') of the days 2024-01-01 .. 2024-01-09 *)
strftime(d) == <<2, 0, 2, 4, Hyphen, 0, 1, Hyphen, 0, d>>

(* lines = [line.strip() for line in text.split(newline) if line.strip()] *)
stripped_lines(text) ==
    SelectSeq([i \in DOMAIN text |-> strip(text[i])], LAMBDA l : l # <<>>)

(* variant: a window that would reach one line further *)
search_window_wide(lines, i) ==
    SubSeq(lines, i, IF Len(lines) < i + 4 THEN Len(lines) ELSE i + 4)

search_window(lines, i) ==
    SubSeq(lines, i, IF Len(lines) < i + 3 THEN Len(lines) ELSE i + 3)

RECURSIVE found_date(_, _)
found_date(window, default_date_str) ==
    IF window = <<>> THEN default_date_str
    ELSE IF date_positions(Head(window)) # {} THEN first_date(Head(window))
    ELSE found_date(Tail(window), default_date_str)

(* the pairs the pass over the lines appends, from line i on *)
RECURSIVE windowed_results(_, _, _)
windowed_results(lines, i, default_date_str) ==
    IF i > Len(lines) THEN <<>>
    ELSE LET serials_in_line == serial_findall(lines[i])
             date == found_date(search_window(lines, i), default_date_str)
         IN  [k \in DOMAIN serials_in_line |-> <<serials_in_line[k], date>>]
                \o windowed_results(lines, i + 1, default_date_str)

(* the text as one string again *)
RECURSIVE whole_text(_)
whole_text(text) ==
    IF Len(text) = 1 THEN text[1]
    ELSE text[1] \o <<Newline>> \o whole_text(Tail(text))

(* variant: a fallback that would look for 8 digits without the two \b *)
backup_results_unbounded(text, default_date_str) ==
    LET whole == whole_text(text)
        starts == {p \in DOMAIN whole : serial_pattern_unbounded(whole, p)}
        first == CHOOSE p \in starts : \A q \in starts : p <= q
    IN  IF starts = {} THEN <<>>
        ELSE << <<SubSeq(whole, first, first + 7), default_date_str>> >>

(* "if not results": all serials of the text with its first date *)
backup_results(text, default_date_str) ==
    LET all_serials == serial_findall(whole_text(text))
        backup_date == IF date_positions(whole_text(text)) # {}
                       THEN first_date(whole_text(text)) ELSE default_date_str
    IN  [k \in DOMAIN all_serials |-> <<all_serials[k], backup_date>>]

(* variant: a fold in which the first date of a serial would stay *)
RECURSIVE unique_map_first_wins(_)
unique_map_first_wins(results) ==
    IF results = <<>> THEN <<>>
    ELSE LET front == unique_map_first_wins(SubSeq(results, 1, Len(results) - 1))
             r == results[Len(results)]
         IN  IF \E k \in DOMAIN front : front[k][1] = r[1] THEN front
             ELSE Append(front, r)

(* list({r[0]: r[1] for r in results}.items()): a key stays where it was
   first inserted, its value is the one inserted last *)
RECURSIVE unique_map(_)
unique_map(results) ==
    IF results = <<>> THEN <<>>
    ELSE LET front == unique_map(SubSeq(results, 1, Len(results) - 1))
             r == results[Len(results)]
         IN  IF \E k \in DOMAIN front : front[k][1] = r[1]
             THEN [k \in DOMAIN front |-> IF front[k][1] = r[1] THEN r ELSE front[k]]
             ELSE Append(front, r)

EmptyText == << <<>> >>

(* results as it stands before the fold into unique_map *)
results(text, default_date) ==
    LET t == translate(text)
        windowed == windowed_results(stripped_lines(t), 1, strftime(default_date))
    IN  IF windowed = <<>> THEN backup_results(t, strftime(default_date)) ELSE windowed

extract_serials_with_date(text, default_date) ==
    IF text = EmptyText THEN <<>> ELSE unique_map(results(text, default_date))

extract_serials_only(text) ==
    IF text = EmptyText THEN {}
    ELSE LET found == serial_findall(whole_text(translate(text)))
         IN  {found[k] : k \in DOMAIN found}

(* The pasted texts.  A one-line text is made of up to MaxChunks pieces, so
   that digit runs meet letters, separators and each other; a longer text is
   made of up to MaxLines simple lines, so that serials and dates fall on
   different lines. *)
SerA == <<0, 0, 0, 0, 0, 0, 0, 1>>
SerB == <<1, 2, 3, 4, 5, 6, 7, 8>>
SerBWide == <<11, 12, 13, 14, 15, 16, 17, 18>>
Run9 == <<1, 2, 3, 4, 5, 6, 7, 8, 9>>
Run7 == <<1, 2, 3, 4, 5, 6, 7>>
DateX == <<2, 0, 2, 4, Hyphen, 0, 1, Hyphen, 0, 2>>
DateY == <<2, 0, 2, 4, Slash, 0, 1, Slash, 0, 3>>

Chunks ==
    {SerA, SerB, SerBWide, Run9, Run7, DateX, DateY,
     <<Letter>>, <<Underscore>>, <<Blank>>, <<Comma>>}

RECURSIVE concat(_)
concat(pieces) == IF pieces = <<>> THEN <<>> ELSE Head(pieces) \o concat(Tail(pieces))

RichLines == {concat(ps) : ps \in UNION {[1..n -> Chunks] : n \in 1..MaxChunks}}

SimpleLines ==
    {<<>>, <<Blank>>, SerA, SerB, DateX, DateY, SerA \o <<Comma>> \o SerB}

Texts ==
    {<<l>> : l \in RichLines} \cup UNION {[1..n -> SimpleLines] : n \in 1..MaxLines}

DefaultDates == {5}

(* the text sits in the text area *)
InitParse ==
    /\ sheet = <<>>
    /\ stock = NoStock
    /\ pastCalls = 0
    /\ sessions = [s \in Sessions |-> Idle]
    /\ ret \in {[op |-> "text", text |-> text] : text \in Texts}

(* "read": parsed = extract_serials_with_date(txt, date_in) *)
ReadPairs ==
    \E default_date \in DefaultDates :
        /\ ret.op = "text"
        /\ ret' = [op |-> "pairs", text |-> ret.text, default_date |-> default_date,
                   pairs |-> extract_serials_with_date(ret.text, default_date)]
        /\ UNCHANGED <<sheet, stock, pastCalls, sessions>>

(* sns = extract_serials_only(txt) *)
ReadSerials ==
    /\ ret.op = "text"
    /\ ret' = [op |-> "serials", text |-> ret.text,
               serials |-> extract_serials_only(ret.text)]
    /\ UNCHANGED <<sheet, stock, pastCalls, sessions>>

NextParse == ReadPairs \/ ReadSerials

SpecParse == InitParse /\ [][NextParse]_vars

----------------------------------------------------------------------------
(* The claims.  A claim about what an operation does is stated on the
   operation applied, with every argument of the run, to the reachable store;
   the words of the claims (active, offending, same week, price) are defined
   here from the specification text, not from the operators above. *)

ActiveStatuses == {InStock, Deployed}
IsActive(r) == r.status \in ActiveStatuses
IsTerminal(r) == r.status \in TerminalStatuses

HasActiveRecord(recs, s) == \E i \in DOMAIN recs : recs[i].sn = s /\ IsActive(recs[i])

(* the requested serials with no record, or with no record in an active status *)
Offending(recs, targets) == {s \in targets : ~HasActiveRecord(recs, s)}

ActiveCount(recs) == Cardinality({i \in DOMAIN recs : IsActive(recs[i])})

AppendedRows(recs, after) == {j \in DOMAIN after : j > Len(recs)}

(* C1: update_status_bulk is all-or-nothing: when a requested serial has no
   record or no record in InStock/Deployed, for every store state and every
   request the call returns an error, changes no field of any record and
   runs no weekly recompute. *)
C1_AllOrNothing ==
    \A targets \in SUBSET Serials, c \in TransitionCalls, f1 \in BOOLEAN, f2 \in BOOLEAN :
        LET r == update_status_bulk(sheet, targets, c[1], c[2], c[3], c[4], c[5], c[6],
                                    f1, f2)
        IN  Offending(sheet, targets) # {} =>
                /\ r.ret.error
                /\ r.sheet = sheet
                /\ ~r.ret.recalc

(* a call was just rejected for a serial in a terminal status while the store
   also holds an active record *)
C1_Witness ==
    /\ ret.op = "update_status" /\ ret.error /\ ret.why = "invalid"
    /\ \E i \in DOMAIN sheet : IsActive(sheet[i])
    /\ \E i \in DOMAIN sheet : IsTerminal(sheet[i])

SameButAmount(r1, r2) == [r1 EXCEPT !.amount = <<>>] = [r2 EXCEPT !.amount = <<>>]

(* C2: a record in a terminal status is never transitioned again: no step
   changes the status, completedAt, zone, memo or jobId (or serial, acquiredAt)
   of a record that is terminal; only its amount may change. *)
C2_TerminalNeverTransitioned ==
    [][\A i \in DOMAIN sheet :
          IsTerminal(sheet[i]) =>
              i \in DOMAIN sheet' /\ SameButAmount(sheet[i], sheet'[i])]_vars

(* C3: at most one record per serial is in an active status. *)
C3_UniqueActive ==
    \A i \in DOMAIN sheet, j \in DOMAIN sheet :
        (i # j /\ IsActive(sheet[i]) /\ IsActive(sheet[j])) => sheet[i].sn # sheet[j].sn

(* C4: when update_status_bulk fails validation the error names exactly the
   offending serials: every requested serial that is absent or not active,
   and no active one. *)
C4_ErrorNamesOffenders ==
    \A targets \in SUBSET Serials, c \in TransitionCalls :
        LET r == update_status_bulk(sheet, targets, c[1], c[2], c[3], c[4], c[5], c[6],
                                    FALSE, FALSE)
        IN  Offending(sheet, targets) # {} => r.ret.named = Offending(sheet, targets)

(* Pricing in the words of the specification *)
VolumeBonus(n) ==
    CASE n >= 150 -> 20 [] n >= 100 /\ n < 150 -> 15 [] n >= 50 /\ n < 100 -> 10
      [] n >= 20 /\ n < 50 -> 5 [] OTHER -> 0

ValidDate(cell) == Len(cell) = 1 /\ cell[1] >= 0

EarlyBonus(row) ==
    IF ValidDate(row.start) /\ ValidDate(row.end) /\ row.end[1] - row.start[1] <= 3
    THEN 10 ELSE 0

WeekNumber(d) == d \div 7

(* the Returned records completed in the Monday-to-Sunday week of day d whose
   memo carries no bonus marker *)
WeekRecords(recs, d) ==
    {i \in DOMAIN recs :
        /\ recs[i].status = Returned
        /\ ValidDate(recs[i].end)
        /\ WeekNumber(recs[i].end[1]) = WeekNumber(d)
        /\ ~HasBonusMarker(recs[i].memo)}

WeekPriced(recs, d) ==
    \A i \in WeekRecords(recs, d) :
        recs[i].amount =
            <<ZONES[recs[i].zone] + VolumeBonus(Cardinality(WeekRecords(recs, d)))
                + EarlyBonus(recs[i])>>

(* C5: after a successful update_status_bulk to Returned with completion date
   d, every Returned record of the week of d without a bonus marker has
   amount = basePrice(zone) + volumeBonus(n) + earlyBonus, n being the number
   of such records, for the new batch and for the records completed earlier. *)
C5_RetroactiveRecompute ==
    \A targets \in SUBSET Serials \ {{}}, c \in ReturnedCalls, f2 \in BOOLEAN :
        LET r == update_status_bulk(sheet, targets, c[1], c[2], c[3], c[4], c[5], c[6],
                                    FALSE, f2)
        IN  ~r.ret.error => WeekPriced(r.sheet, c[2])

(* the same statement for the runs in which the store takes the recompute's
   write: it holds, so C5 fails only where that write raises *)
C5_WhenTheRecomputeIsWritten ==
    \A targets \in SUBSET Serials \ {{}}, c \in ReturnedCalls :
        LET r == update_status_bulk(sheet, targets, c[1], c[2], c[3], c[4], c[5], c[6],
                                    FALSE, FALSE)
        IN  ~r.ret.error => WeekPriced(r.sheet, c[2])

(* C6: weekly recompute is idempotent: after a run of recalc_weekly_revenue
   for a week, a second run for that week with no change in between writes
   no cell and leaves every amount as the first run left it. *)
C6_RecomputeIdempotent ==
    \A d \in CompDates, f \in BOOLEAN :
        LET first == recalc_weekly_revenue(sheet, d, FALSE)
            second == recalc_weekly_revenue(first.sheet, d, f)
        IN  /\ second.ret.cells = 0
            /\ ~second.ret.failed
            /\ second.sheet = first.sheet

(* a run has just written cells, and a second run for either week has
   nothing to write *)
C6_Witness ==
    /\ ret.op = "recalc" /\ ret.cells > 0 /\ ~ret.failed
    /\ \A d \in CompDates : recalc_weekly_revenue(sheet, d, FALSE).ret.cells = 0

(* C7: register_new_inventory is idempotent against re-submission: a pair
   whose serial has an InStock or Deployed record adds 1 to skipped and 0 to
   created and no record is appended for it; when every pair is such a
   re-submission the store, and so the number of active records, is
   unchanged. *)
C7_RegisterIdempotent ==
    \A data_list \in RegLists, f \in BOOLEAN :
        LET r == register_new_inventory(sheet, data_list, f)
            dup == {k \in DOMAIN data_list : HasActiveRecord(sheet, data_list[k][1])}
        IN  /\ \A j \in AppendedRows(sheet, r.sheet) :
                    ~HasActiveRecord(sheet, r.sheet[j].sn)
            /\ ~r.ret.failed =>
                    /\ r.ret.skipped = Cardinality(dup)
                    /\ r.ret.count = Len(data_list) - Cardinality(dup)
            /\ dup = DOMAIN data_list =>
                    /\ r.sheet = sheet
                    /\ ActiveCount(r.sheet) = ActiveCount(sheet)
                    /\ r.ret.count = 0 /\ r.ret.skipped = Len(data_list)

(* a list of two pairs was just re-submitted and both were skipped *)
C7_Witness ==
    /\ ret.op = "register_new" /\ ret.count = 0 /\ ret.skipped = 2 /\ ~ret.failed
    /\ ActiveCount(sheet) > 0

AllTerminal(recs, s) ==
    /\ \E i \in DOMAIN recs : recs[i].sn = s
    /\ \A i \in DOMAIN recs : recs[i].sn = s => IsTerminal(recs[i])

(* C8: the duplicate-in-hand guard ignores terminal history: for a serial all
   of whose records are terminal, register_new_inventory appends one new
   InStock record per pair naming it (acquiredAt the given date, every other
   cell empty) and leaves the earlier records unchanged. *)
C8_GuardIgnoresTerminalHistory ==
    \A data_list \in RegLists :
        LET r == register_new_inventory(sheet, data_list, FALSE)
        IN  \A k \in DOMAIN data_list :
                LET s == data_list[k][1]
                IN  AllTerminal(sheet, s) =>
                        /\ \E j \in AppendedRows(sheet, r.sheet) :
                              r.sheet[j] = Row(s, InStock, data_list[k][2], <<>>, "",
                                               <<>>, <<>>, "")
                        /\ Cardinality({j \in AppendedRows(sheet, r.sheet) :
                                            r.sheet[j].sn = s})
                             = Cardinality({n \in DOMAIN data_list : data_list[n][1] = s})
                        /\ SubSeq(r.sheet, 1, Len(sheet)) = sheet

(* a serial with a terminal record was just registered again *)
C8_Witness ==
    /\ ret.op = "register_new" /\ ret.count > 0
    /\ \E i \in DOMAIN sheet, j \in DOMAIN sheet :
          /\ i < j /\ sheet[i].sn = sheet[j].sn
          /\ IsTerminal(sheet[i]) /\ sheet[j].status = InStock

Observed(cur) == {cur[k][1] : k \in DOMAIN cur}
RecordedActive(recs) == {recs[i].sn : i \in {j \in DOMAIN recs : IsActive(recs[j])}}
NewInHand(view) == {view.missing_db[k][1] : k \in DOMAIN view.missing_db}

(* C9: the stocktake computes New-in-hand = P - D and Missing-in-hand = D - P
   with D the serials of all records in InStock or Deployed: an observed
   Deployed unit is not New-in-hand, an unobserved one is Missing-in-hand. *)
C9_FindingsAgainstActive ==
    \A parsed \in StockLists :
        LET view == stocktake_view(parsed, sheet)
        IN  /\ NewInHand(view) = Observed(parsed) \ RecordedActive(sheet)
            /\ view.ghosts = RecordedActive(sheet) \ Observed(parsed)

(* C10: the stocktake reports a date-mismatch finding for the serials that
   are observed and recorded with different dates: such a serial is among
   the serials the tab reports a finding for. *)
C10_DateMismatchReported ==
    \A parsed \in StockLists :
        LET view == stocktake_view(parsed, sheet)
        IN  \A k \in DOMAIN parsed, i \in DOMAIN sheet :
                (/\ sheet[i].sn = parsed[k][1]
                 /\ sheet[i].status = InStock
                 /\ sheet[i].start # parsed[k][2])
                => parsed[k][1] \in NewInHand(view) \cup view.ghosts

(* the findings on screen (stock) were computed from an earlier read of the
   store; the button applies them to the store as it is now (sheet) *)
ApplyGhosts(updateFails) ==
    update_status_bulk(sheet, stock.ghosts, ReturnError, 5, "", 0, <<"stocktake">>, "",
                       updateFails, FALSE)

(* C11: applying Missing-in-hand validates against the store at apply time:
   if a ghost serial has left the active statuses since the findings were
   computed the application is rejected as a whole and no record changes; if
   it succeeds, only records that were active at apply time change, and they
   become ReturnError with the stocktake memo. *)
C11_ApplyMissingInHand ==
    \A f \in BOOLEAN :
        stock.ghosts # {} =>
            LET r == ApplyGhosts(f)
            IN  /\ Offending(sheet, stock.ghosts) # {} => r.ret.error /\ r.sheet = sheet
                /\ ~r.ret.error =>
                      \A i \in DOMAIN sheet :
                          r.sheet[i] # sheet[i] =>
                              /\ IsActive(sheet[i])
                              /\ r.sheet[i].status = ReturnError
                              /\ r.sheet[i].memo = <<"stocktake">>

(* the first half of C11 alone: it holds, stale findings are rejected whole *)
C11_StaleFindingsRejected ==
    \A f \in BOOLEAN :
        (stock.ghosts # {} /\ Offending(sheet, stock.ghosts) # {}) =>
            ApplyGhosts(f).ret.error /\ ApplyGhosts(f).sheet = sheet

(* findings are on screen for a serial that has since been completed *)
C11_StaleFindingsReached ==
    /\ ret.op = "update_status" /\ ret.error /\ ret.why = "invalid"
    /\ \E s \in stock.ghosts : ~HasActiveRecord(sheet, s)

(* C12: in every reachable state a record's completedAt is set if and only
   if its status is terminal. *)
C12_CompletedIffTerminal ==
    \A i \in DOMAIN sheet : (sheet[i].end # <<>>) <=> IsTerminal(sheet[i])

(* C13: records are mutated in place and never deleted: every step keeps
   every existing record at its position with its serial and its acquiredAt;
   the sheet changes its length only by appending at the end. *)
C13_InPlaceNeverDeleted ==
    [][/\ Len(sheet') >= Len(sheet)
       /\ \A i \in DOMAIN sheet :
             sheet'[i].sn = sheet[i].sn /\ sheet'[i].start = sheet[i].start]_vars

(* a transition has just rewritten two rows in place, below them or not *)
C13_Witness ==
    /\ ret.op = "update_status" /\ ~ret.error /\ ret.count = 2
    /\ \A i \in DOMAIN sheet : sheet[i].start # <<>> \/ sheet[i].sn = "OLD"

(* C14: a transition to Returned whose zone is not a label of the price
   table is rejected before any write: it returns an error and no record is
   changed. *)
C14_UnknownZoneRejected ==
    \A targets \in SUBSET Serials \ {{}}, c \in TransitionCalls :
        (c[1] = Returned /\ c[3] \notin DOMAIN ZONES) =>
            LET r == update_status_bulk(sheet, targets, c[1], c[2], c[3], c[4], c[5], c[6],
                                        FALSE, FALSE)
            IN  r.ret.error /\ r.sheet = sheet

(* the text of the completion date handed to a transition *)
DateText(d) == IF d = None THEN <<>> ELSE <<d>>

CarriesNewFields(row, c) ==
    /\ row.status = c[1]
    /\ row.end = DateText(c[2])
    /\ row.zone = c[3]
    /\ c[5] # <<>> => row.memo = c[5]
    /\ c[6] # "" => row.job = c[6]

(* C15: when validation has passed and the store raises on the batch write,
   update_status_bulk returns an error and not a count, runs no recompute
   and changes no record; when it reports success every matched record
   carries the new status, completedAt, zone, memo and jobId. *)
C15_WriteFailureReported ==
    \A targets \in SUBSET Serials \ {{}}, c \in TransitionCalls, f2 \in BOOLEAN :
        Offending(sheet, targets) = {} =>
            LET failed == update_status_bulk(sheet, targets, c[1], c[2], c[3], c[4],
                                             c[5], c[6], TRUE, f2)
                done == update_status_bulk(sheet, targets, c[1], c[2], c[3], c[4],
                                           c[5], c[6], FALSE, f2)
            IN  /\ failed.ret.error /\ failed.ret.count = 0
                /\ ~failed.ret.recalc
                /\ failed.sheet = sheet
                /\ ~done.ret.error
                /\ \A i \in DOMAIN sheet :
                      sheet[i].sn \in targets => CarriesNewFields(done.sheet[i], c)

(* a batch of two records has just failed on the write and is reported so *)
C15_Witness ==
    /\ ret.op = "update_status" /\ ret.error /\ ret.why = "db" /\ ret.failed
    /\ ActiveCount(sheet) = 2

(* C16: a store failure in register_new_inventory's append is told apart
   from a normal result: every call that returns a pair (created, skipped)
   has created = the number of records appended and created + skipped = the
   number of submitted pairs. *)
C16_AppendFailurePropagated ==
    \A data_list \in RegLists, f \in BOOLEAN :
        LET r == register_new_inventory(sheet, data_list, f)
        IN  /\ r.ret.count = Len(r.sheet) - Len(sheet)
            /\ r.ret.count + r.ret.skipped = Len(data_list)

TierBoundaries == {20, 50, 100, 150}

Price(row, n) == ZONES[row.zone] + VolumeBonus(n) + EarlyBonus(row)

(* C17: the volume bonus is 20 from 150, 15 from 100, 10 from 50, 5 from 20
   and 0 below, so for a fixed zone and earliness the price the program
   computes is non-decreasing in the weekly count, changes only at 20, 50,
   100 and 150 and rises by exactly 5 at each of them. *)
C17_PricingMonotone ==
    ret.op = "price" =>
        LET row == sheet[1]
            n == ret.count
        IN  /\ row.amount = <<Price(row, n)>>
            /\ \A m \in 1..n : Price(row, m) <= row.amount[1]
            /\ n > 1 =>
                  row.amount[1] - Price(row, n - 1)
                    = IF n \in TierBoundaries THEN 5 ELSE 0

(* the price of the 150th record of a week in zone D, completed early *)
C17_Witness ==
    /\ ret.op = "price" /\ ret.count = 150
    /\ sheet[1].zone = "D" /\ sheet[1].amount = <<100>>

(* C18: in every reachable state the amount of every record is a
   non-negative integer, and the amount of every InStock or Deployed record
   is 0. *)
C18_AmountNonNegative ==
    \A i \in DOMAIN sheet :
        /\ to_numeric(sheet[i].amount) \in Nat
        /\ IsActive(sheet[i]) => to_numeric(sheet[i].amount) = 0

FirstIndex(occ, sn) == CHOOSE k \in DOMAIN occ : occ[k][1] = sn /\ \A l \in 1..(k - 1) : occ[l][1] # sn
LastIndex(occ, sn) == CHOOSE k \in DOMAIN occ : occ[k][1] = sn /\ \A l \in (k + 1)..Len(occ) : occ[l][1] # sn

SerialsOf(pairs) == {pairs[k][1] : k \in DOMAIN pairs}

(* C19: extract_serials_with_date de-duplicates by serial, last occurrence
   winning: each serial that occurs is in the output exactly once, there are
   at most as many pairs as occurrences, a serial's date is the date of its
   last occurrence in the text, and the output is in the order of the first
   occurrences. *)
C19_LastOccurrenceWins ==
    ret.op = "pairs" =>
        LET occ == results(ret.text, ret.default_date)
            out == ret.pairs
        IN  /\ \A k \in DOMAIN out, l \in DOMAIN out : k # l => out[k][1] # out[l][1]
            /\ SerialsOf(out) = SerialsOf(occ)
            /\ Len(out) <= Len(occ)
            /\ \A k \in DOMAIN out : out[k][2] = occ[LastIndex(occ, out[k][1])][2]
            /\ \A k \in DOMAIN out, l \in DOMAIN out :
                  k < l => FirstIndex(occ, out[k][1]) < FirstIndex(occ, out[l][1])

(* serial B, then A, then B again under another date: B comes first in the
   output, with the later date *)
C19_Witness ==
    /\ ret.op = "pairs"
    /\ ret.text = <<SerB, SerA, DateX, SerB, DateY>>
    /\ ret.pairs = << <<SerB, strftime(3)>>, <<SerA, strftime(2)>> >>

NormalizeDigits(line) ==
    [k \in DOMAIN line |-> IF line[k] >= 10 /\ line[k] <= 19 THEN line[k] - 10 ELSE line[k]]

AsciiDigit(c) == c >= 0 /\ c <= 9

(* the runs of exactly 8 ASCII digits of a line, bounded on each side by a
   non-digit character or the end of the text *)
EightDigitRuns(line) ==
    {SubSeq(line, p, p + 7) : p \in
        {q \in 1..(Len(line) - 7) :
            /\ \A k \in q..(q + 7) : AsciiDigit(line[k])
            /\ q = 1 \/ ~AsciiDigit(line[q - 1])
            /\ q + 7 = Len(line) \/ ~AsciiDigit(line[q + 8])}}

SerialsInText(text) == UNION {EightDigitRuns(NormalizeDigits(text[i])) : i \in DOMAIN text}

(* C20: a serial is matched wherever the text, full-width digits normalized,
   holds exactly 8 consecutive ASCII digits bounded by non-digits or the ends
   of the text, also next to a letter or an underscore; both functions find
   this set. *)
C20_EightDigitsBetweenNonDigits ==
    /\ ret.op = "serials" => ret.serials = SerialsInText(ret.text)
    /\ ret.op = "pairs" => SerialsOf(ret.pairs) = SerialsInText(ret.text)

(* the parts of C20 that hold: both functions find the same serials, never
   one inside a longer digit run, and a serial keeps its leading zeros *)
C20_BothFindTheSame ==
    /\ ret.op = "serials" =>
          /\ ret.serials = SerialsOf(extract_serials_with_date(ret.text, 5))
          /\ ret.serials \subseteq SerialsInText(ret.text)
    /\ (ret.op = "serials" /\ ret.text = <<SerA>>) => ret.serials = {SerA}

(* the non-empty trimmed lines of a text, and the lines that hold a date *)
TrimmedLines(text) == stripped_lines(translate(text))
HoldsDate(line) == date_positions(line) # {}
HoldsSerial(line, sn) == \E k \in DOMAIN serial_findall(line) : serial_findall(line)[k] = sn

(* the date of line i: that of the first line among i, i+1, i+2, i+3 holding
   a date, else the default date *)
WindowDate(lines, i, default_date_str) ==
    LET dated == {j \in DOMAIN lines : i <= j /\ j <= i + 3 /\ HoldsDate(lines[j])}
    IN  IF dated = {} THEN default_date_str
        ELSE first_date(lines[CHOOSE j \in dated : \A m \in dated : j <= m])

LastLineWith(lines, sn) ==
    CHOOSE i \in DOMAIN lines :
        HoldsSerial(lines[i], sn) /\ \A j \in DOMAIN lines : HoldsSerial(lines[j], sn) => j <= i

(* C21: windowed date association: a serial found on trimmed line i is paired
   with the first date found on line i and then on the next lines in order,
   at most 3 of them; a date before line i or more than 3 lines after it is
   never used, and without a date in the window the serial gets the default
   date.  (Of the lines a serial is on, the last decides, by C19.) *)
C21_WindowedDate ==
    ret.op = "pairs" =>
        LET lines == TrimmedLines(ret.text)
        IN  \A k \in DOMAIN ret.pairs :
                /\ \E i \in DOMAIN lines : HoldsSerial(lines[i], ret.pairs[k][1])
                /\ ret.pairs[k][2] =
                      WindowDate(lines, LastLineWith(lines, ret.pairs[k][1]),
                                 strftime(ret.default_date))

(* a date four lines below serial A is not used for it, and is used for B
   three lines above it *)
C21_Witness ==
    /\ ret.op = "pairs"
    /\ ret.text = <<SerA, SerB, SerB, SerB, DateX>>
    /\ ret.pairs = << <<SerA, strftime(5)>>, <<SerB, strftime(2)>> >>

IsBlankText(text) == \A i \in DOMAIN text : \A k \in DOMAIN text[i] : text[i][k] = Blank

(* C22: parsing never fails on malformed input: extract_serials_with_date
   returns the empty list for an empty or blank text, extract_serials_only
   the empty result for an empty text and for a text without a run of exactly
   8 digits; both return a result for every text. *)
C22_MalformedInputGivesEmpty ==
    /\ (ret.op = "pairs" /\ IsBlankText(ret.text)) => ret.pairs = <<>>
    /\ (ret.op = "serials" /\ SerialsInText(ret.text) = {}) => ret.serials = {}
    /\ (ret.op = "pairs" /\ SerialsInText(ret.text) = {}) => ret.pairs = <<>>

(* a 7-digit run was read and gave nothing *)
C22_Witness ==
    /\ ret.op = "serials" /\ ret.text = <<Run7>> /\ ret.serials = {}

(* the recompute runs after a transition to Returned with a completion date *)
RecomputeFollows(c) == c[1] = Returned /\ c[2] # None

MemoAndJobFrame(old, new, c) ==
    /\ new.memo = IF c[5] # <<>> THEN c[5] ELSE old.memo
    /\ new.job = IF c[6] # "" THEN c[6] ELSE old.job
    /\ new.sn = old.sn /\ new.start = old.start

UnmatchedFrame(old, new, inWeek, c) ==
    \/ new = old
    \/ SameButAmount(old, new) /\ inWeek /\ RecomputeFollows(c)

UpdatedCount(recs, targets) == Cardinality({i \in DOMAIN recs : recs[i].sn \in targets})

(* C23 as stated: after a successful update_status_bulk every matched record
   has status, completedAt, zone and amount set to the given values, memo and
   jobId overwritten only when given non-empty; every other record keeps all
   its fields, except the amount of Returned records of the week changed by
   the recompute; the count returned is the number of records updated. *)
C23_FrameAsStated ==
    \A targets \in SUBSET Serials \ {{}}, c \in TransitionCalls, f2 \in BOOLEAN :
        LET r == update_status_bulk(sheet, targets, c[1], c[2], c[3], c[4], c[5], c[6],
                                    FALSE, f2)
        IN  ~r.ret.error =>
              /\ r.ret.count = UpdatedCount(sheet, targets)
              /\ \A i \in DOMAIN sheet :
                    IF sheet[i].sn \in targets
                    THEN /\ CarriesNewFields(r.sheet[i], c)
                         /\ MemoAndJobFrame(sheet[i], r.sheet[i], c)
                         /\ r.sheet[i].amount = <<c[4]>>
                    ELSE UnmatchedFrame(sheet[i], r.sheet[i],
                                        i \in WeekRecords(r.sheet, c[2]), c)

(* C23 amended: the same, but the amount of a matched record is the given
   price unless the recompute that follows a transition to Returned has
   repriced it as a record of the week. *)
C23_Frame ==
    \A targets \in SUBSET Serials \ {{}}, c \in TransitionCalls, f2 \in BOOLEAN :
        LET r == update_status_bulk(sheet, targets, c[1], c[2], c[3], c[4], c[5], c[6],
                                    FALSE, f2)
        IN  ~r.ret.error =>
              /\ r.ret.count = UpdatedCount(sheet, targets)
              /\ \A i \in DOMAIN sheet :
                    IF sheet[i].sn \in targets
                    THEN /\ CarriesNewFields(r.sheet[i], c)
                         /\ MemoAndJobFrame(sheet[i], r.sheet[i], c)
                         /\ \/ r.sheet[i].amount = <<c[4]>>
                            \/ /\ RecomputeFollows(c)
                               /\ i \in WeekRecords(r.sheet, c[2])
                               /\ r.ret.cells > 0 /\ ~r.ret.failed
                    ELSE UnmatchedFrame(sheet[i], r.sheet[i],
                                        i \in WeekRecords(r.sheet, c[2]), c)

(* a record was just made Returned at price 55 and repriced to 65 by the
   recompute of its week *)
C23_Witness ==
    /\ ret.op = "update_status" /\ ~ret.error /\ ret.recalc /\ ret.cells > 0
    /\ ~ret.failed
    /\ \E i \in DOMAIN sheet :
          sheet[i].status = Returned /\ sheet[i].zone = "A" /\ sheet[i].amount = <<65>>

(* C24: recalc_weekly_revenue changes no field other than amount, and the
   amount only of Returned records completed in the Monday-to-Sunday week of
   the given date whose memo carries no bonus marker; every other record keeps
   its amount, and the amounts written count the week without its bonus
   rows. *)
C24_RecomputeFrame ==
    \A d \in CompDates, f \in BOOLEAN :
        LET r == recalc_weekly_revenue(sheet, d, f)
            n == Cardinality(WeekRecords(sheet, d))
        IN  /\ Len(r.sheet) = Len(sheet)
            /\ \A i \in DOMAIN sheet :
                  /\ SameButAmount(sheet[i], r.sheet[i])
                  /\ r.sheet[i].amount # sheet[i].amount =>
                        /\ i \in WeekRecords(sheet, d)
                        /\ r.sheet[i].amount =
                              <<ZONES[sheet[i].zone] + VolumeBonus(n) + EarlyBonus(sheet[i])>>

(* a recompute of the first week has repriced a unit to 65 beside a bonus row
   of that week and a record returned in the next week, both left alone *)
C24_Witness ==
    /\ ret.op = "recalc" /\ ret.cells = 1 /\ ~ret.failed
    /\ \E i, j, k \in DOMAIN sheet :
          /\ HasBonusMarker(sheet[i].memo) /\ sheet[i].status = Returned
          /\ sheet[i].end = <<5>> /\ sheet[i].amount # <<55>>
          /\ sheet[j].status = Returned /\ sheet[j].end = <<9>>
          /\ sheet[k].status = Returned /\ sheet[k].end = <<5>>
          /\ ~HasBonusMarker(sheet[k].memo) /\ sheet[k].amount = <<65>>

(* what the price of a record holds beyond its base price and the volume
   bonus of the week's count *)
EarlyPart(row, week_count) == row.amount[1] - ZONES[row.zone] - VolumeBonus(week_count)

(* C25: earlyBonus is a flat 10 when completedAt - acquiredAt is at most 3
   days and 0 when it is 4 days or more; when acquiredAt or completedAt is
   missing or unparsable the bonus is 0 and a price is still produced. *)
C25_EarlyBonusFlat ==
    ret.op = "price" =>
        \A i \in DOMAIN sheet :
            /\ Len(sheet[i].amount) = 1
            /\ IF ValidDate(sheet[i].start) /\ ValidDate(sheet[i].end)
               THEN /\ sheet[i].end[1] - sheet[i].start[1] <= 3 =>
                          EarlyPart(sheet[i], ret.count) = 10
                    /\ sheet[i].end[1] - sheet[i].start[1] >= 4 =>
                          EarlyPart(sheet[i], ret.count) = 0
               ELSE EarlyPart(sheet[i], ret.count) = 0

(* a record completed exactly three days after it was acquired, priced with
   the bonus *)
C25_Witness ==
    /\ ret.op = "price" /\ ret.count = 1
    /\ sheet[1].start = <<2>> /\ sheet[1].end = <<5>> /\ sheet[1].zone = "A"
    /\ sheet[1].amount = <<ZONES["A"] + 10>>

(* the records of units (not the rows of register_past_bulk) among the
   records of the week of day d carry the formula amount for the week's
   current count *)
UnitsWeekPriced(recs, d) ==
    \A i \in WeekRecords(recs, d) :
        recs[i].sn # "OLD" =>
            recs[i].amount =
                <<ZONES[recs[i].zone] + VolumeBonus(Cardinality(WeekRecords(recs, d)))
                    + EarlyBonus(recs[i])>>

ReportsSuccess == ret.op \in {"register_new", "update_status", "register_past"} /\ ~ret.error

(* C26: after every operation that reports success, in every week, the
   Returned records without a bonus marker completed in that week carry
   amount = basePrice(zone) + volumeBonus(current count of the week) +
   earlyBonus; stated here for the records of units, which register_past_bulk
   and a failed recompute write must not leave priced with a stale count. *)
C26_WeeklyAmountsConsistent ==
    ReportsSuccess => \A d \in CompDates : UnitsWeekPriced(sheet, d)

(* C27: on success the count returned by update_status_bulk equals the
   number of distinct requested serials, exactly one record per requested
   serial being updated, also when the store holds earlier terminal records
   with the same serial. *)
C27_CountIsDistinctSerials ==
    \A targets \in SUBSET Serials \ {{}}, c \in TransitionCalls :
        LET r == update_status_bulk(sheet, targets, c[1], c[2], c[3], c[4], c[5], c[6],
                                    FALSE, FALSE)
        IN  ~r.ret.error =>
              /\ r.ret.count = Cardinality(targets)
              /\ \A sn \in targets :
                    Cardinality({i \in DOMAIN sheet :
                        sheet[i].sn = sn /\ ~SameButAmount(sheet[i], r.sheet[i])}) <= 1

(* the counts and totals register_past_bulk is examined with *)
AnyCounts == {-1, 0, 1, 2, 3}
AnyTotals == {-10, 0, 7, 150, 151}

RECURSIVE SumAmounts(_)
SumAmounts(rows) == IF rows = <<>> THEN 0 ELSE rows[1].amount[1] + SumAmounts(Tail(rows))

(* C28: register_past_bulk with count >= 1 appends exactly count Returned
   records with completedAt = date and empty acquiredAt whose amounts sum to
   total and differ by at most 1, the first (total mod count) records carrying
   one more; with count <= 0 it appends nothing and returns 0; it changes no
   existing record. *)
C28_PastBulkSplitsTotal ==
    \A d \in PastDates, n \in AnyCounts, t \in AnyTotals, memo \in PastMemos :
        LET r == register_past_bulk(sheet, d, n, t, "A", memo, "J1", FALSE)
            new == SubSeq(r.sheet, Len(sheet) + 1, Len(r.sheet))
        IN  /\ SubSeq(r.sheet, 1, Len(sheet)) = sheet
            /\ IF n <= 0
               THEN r.sheet = sheet /\ r.ret.count = 0
               ELSE /\ Len(new) = n /\ r.ret.count = n
                    /\ \A k \in DOMAIN new :
                          /\ new[k].status = Returned
                          /\ new[k].end = <<d>>
                          /\ new[k].start = <<>>
                          /\ new[k].amount =
                                <<(t \div n) + (IF k <= t % n THEN 1 ELSE 0)>>
                    /\ SumAmounts(new) = t
                    /\ \A k, m \in DOMAIN new :
                          new[k].amount[1] - new[m].amount[1] \in {-1, 0, 1}

(* 151 was split over two rows appended after a unit's record, 76 and 75 *)
C28_Witness ==
    /\ ret.op = "register_past" /\ ~ret.error /\ ret.count = 2
    /\ Len(sheet) = 3 /\ sheet[1].sn = "A"
    /\ sheet[2].sn = "OLD" /\ sheet[2].amount = <<76>>
    /\ sheet[3].sn = "OLD" /\ sheet[3].amount = <<75>>

NoLineHoldsSerial(lines) == \A i \in DOMAIN lines : serial_findall(lines[i]) = <<>>

(* C30: the whole-text fallback of extract_serials_with_date never contributes
   a pair: whenever no trimmed non-empty line holds a serial, so that the
   fallback is what decides the result, the result is empty. *)
C30_FallbackContributesNothing ==
    (ret.op = "pairs" /\ NoLineHoldsSerial(TrimmedLines(ret.text))) => ret.pairs = <<>>

(* a text of nine digits and a date was read: the lines give no serial, the
   fallback ran and gave none either *)
C30_Witness ==
    /\ ret.op = "pairs"
    /\ ret.text = <<Run9 \o <<Blank>> \o DateX>>
    /\ ret.pairs = <<>>

(* both sessions have returned from calls that read the same worksheet, each
   before the other wrote, and that both name a serial active in it *)
Interleaved(s, o) ==
    /\ s # o
    /\ sessions[s].pc = "done" /\ sessions[o].pc = "done"
    /\ sessions[s].all_records = sessions[o].all_records
    /\ \E sn \in sessions[s].targets \cap sessions[o].targets :
          HasActiveRecord(sessions[s].all_records, sn)

(* C29: when two update_status_bulk calls naming the same active serial
   interleave so that each reads the store before the other writes, at most
   one of them reports success. *)
C29_AtMostOneSucceeds ==
    \A s, o \in Sessions :
        Interleaved(s, o) => sessions[s].error \/ sessions[o].error

(* a call that met no other writer does what update_status_bulk does in one
   piece *)
RaceFreeWriteIsTheCall ==
    \A targets \in RaceTargets, c \in RaceCalls :
        update_status_bulk_write(sheet, sheet, targets, c).sheet
            = update_status_bulk(sheet, targets, c[1], c[2], c[3], c[4], c[5], c[6],
                                 FALSE, FALSE).sheet

====
